---- MODULE Spec2Model ----
(***************************************************************************)
(* Violation detection and risk scoring of the cold-chain shipment         *)
(* monitor (src/main.py).                                                  *)
(*                                                                         *)
(* Numbers.  Sensor values and thresholds are Python floats.  They are     *)
(* modelled as integers counting tenths of the sensor's unit, so 3.3 V is  *)
(* 33 and 2.0 g is 20.  A reading's value is a tagged record: a float, the *)
(* float not-a-number, or Python's None.  Risk scores count                *)
(* ten-thousandths, so the weight 0.1 is 1000 and 0.35 is 3500.            *)
(***************************************************************************)
EXTENDS Integers, Sequences, FiniteSets

VARIABLES
    pc,               \* position of the run
    sensors_def,      \* the module-level sensor definitions the run was started with
    sensor_map,       \* main: sensor_code -> definition, built from sensors_def
    readings,         \* rows of the readings table of the shipment, in table order
    df,               \* main: the DataFrame of the shipment (sensor_code, value, ts)
    viols,            \* the violation list
    score,            \* compute_risk: the returned score
    cat,              \* compute_risk: the returned category
    sensor_analysis,  \* main: per-sensor analysis entries, in order
    critical_alerts,  \* main: names of the sensors whose risk is High, in order
    meta,             \* severity_for: argument
    value,            \* severity_for: argument
    stype,            \* severity_for: argument
    sev               \* severity_for: result

vars == <<pc, sensors_def, sensor_map, readings, df, viols, score, cat,
          sensor_analysis, critical_alerts, meta, value, stype, sev>>

(***************************************************************************)
(* Bounds of the model.                                                    *)
(***************************************************************************)
MaxReadings == 3      \* rows of one shipment's reading table
MaxViolations == 5    \* length of a violation list handed to compute_risk
MaxGrid == 8          \* classifier inputs reach MaxGrid * GridStep tenths
MaxThr == 4           \* classifier thresholds reach MaxThr * GridStep tenths
GridStep == 5         \* spacing of the classifier's input grid, in tenths

(***************************************************************************)
(* Values: Python float, float('nan') and None.                            *)
(***************************************************************************)
None == [tag |-> "None", val |-> 0]
NaN == [tag |-> "nan", val |-> 0]
Num(n) == [tag |-> "float", val |-> n]

IsNum(v) == v.tag = "float"

\* Ordering comparisons of a float with a finite threshold: every comparison
\* with not-a-number is False.
Lt(v, n) == IsNum(v) /\ v.val < n
Gt(v, n) == IsNum(v) /\ v.val > n
Ge(v, n) == IsNum(v) /\ v.val >= n

\* value - n and abs(value): not-a-number propagates.
Sub(v, n) == IF IsNum(v) THEN Num(v.val - n) ELSE NaN
Abs(v) == IF IsNum(v) THEN Num(IF v.val < 0 THEN 0 - v.val ELSE v.val) ELSE NaN

\* dict.get(key, default)
Get(m, key, default) == IF key \in DOMAIN m THEN m[key] ELSE default

(***************************************************************************)
(* Sensor definitions.                                                     *)
(***************************************************************************)
RangeTypes == {"core_temperature", "surface_temperature", "humidity"}
SensorTypes == RangeTypes \cup {"shock", "gps", "battery_voltage"}

SENSORS_DEF ==
    << [sensor_code |-> "T100", sensor_name |-> "ThermoProbe T-100",
        sensor_type |-> "core_temperature", unit |-> "C",
        metadata |-> [ideal_low |-> 20, ideal_high |-> 80, warning_margin |-> 10]],
       [sensor_code |-> "TX5", sensor_name |-> "TempTrack X5",
        sensor_type |-> "surface_temperature", unit |-> "C",
        metadata |-> [ideal_low |-> 0, ideal_high |-> 100, warning_margin |-> 20]],
       [sensor_code |-> "H200", sensor_name |-> "HumidSensor H-200",
        sensor_type |-> "humidity", unit |-> "%",
        metadata |-> [ideal_low |-> 300, ideal_high |-> 600, warning_margin |-> 50]],
       [sensor_code |-> "S50", sensor_name |-> "ShockLog S-50",
        sensor_type |-> "shock", unit |-> "g",
        metadata |-> [spike_threshold |-> 20]],
       [sensor_code |-> "G12", sensor_name |-> "GPS ColdTrack G-12",
        sensor_type |-> "gps", unit |-> "km",
        metadata |-> [max_route_deviation_km |-> 50]],
       [sensor_code |-> "B10", sensor_name |-> "BatteryMonitor B-10",
        sensor_type |-> "battery_voltage", unit |-> "V",
        metadata |-> [min_voltage |-> 33]] >>

(***************************************************************************)
(* severity_for(meta, value, stype)                                        *)
(***************************************************************************)
\* severity_for with the margin test written >= instead of >.
severity_for_GeMargin(m, v, st) ==
    IF v = None THEN "normal"
    ELSE IF /\ st \in RangeTypes
            /\ (Lt(v, m.ideal_low) \/ Gt(v, m.ideal_high))
         THEN IF Ge(Abs(Sub(v, IF Lt(v, m.ideal_low) THEN m.ideal_low ELSE m.ideal_high)),
                    Get(m, "warning_margin", 10))
              THEN "critical" ELSE "warning"
    ELSE IF st = "shock"
         THEN IF Ge(v, Get(m, "spike_threshold", 20)) THEN "critical" ELSE "normal"
    ELSE IF st = "battery_voltage"
         THEN IF Lt(v, Get(m, "min_voltage", 33)) THEN "warning" ELSE "normal"
    ELSE "normal"

severity_for(m, v, st) ==
    IF v = None THEN "normal"
    ELSE IF /\ st \in RangeTypes
            /\ (Lt(v, m.ideal_low) \/ Gt(v, m.ideal_high))
         THEN IF Gt(Abs(Sub(v, IF Lt(v, m.ideal_low) THEN m.ideal_low ELSE m.ideal_high)),
                    Get(m, "warning_margin", 10))
              THEN "critical" ELSE "warning"
    ELSE IF st = "shock"
         THEN IF Ge(v, Get(m, "spike_threshold", 20)) THEN "critical" ELSE "normal"
    ELSE IF st = "battery_voltage"
         THEN IF Lt(v, Get(m, "min_voltage", 33)) THEN "warning" ELSE "normal"
    ELSE "normal"

(***************************************************************************)
(* The classifier on its own: the arguments are drawn, then it is called.  *)
(***************************************************************************)
GridValues == {Num(GridStep * k) : k \in (0 - 4)..MaxGrid} \cup {NaN, None}
GridThresholds == {GridStep * k : k \in 0..MaxThr}
GridMargins == {GridStep * k : k \in (0 - 1)..2}

\* Threshold sets of a sensor type: ranges have ideal_low <= ideal_high; the
\* keys read through dict.get may be missing.
ThresholdSets(st) ==
    IF st \in RangeTypes
    THEN {[ideal_low |-> l, ideal_high |-> h, warning_margin |-> g] :
             l \in GridThresholds, h \in GridThresholds, g \in GridMargins}
         \cup {[ideal_low |-> l, ideal_high |-> h] :
                  l \in GridThresholds, h \in GridThresholds}
    ELSE IF st = "shock"
    THEN {[spike_threshold |-> t] : t \in GridThresholds} \cup {<<>>}
    ELSE IF st = "battery_voltage"
    THEN {[min_voltage |-> t] : t \in GridThresholds} \cup {<<>>}
    ELSE {[max_route_deviation_km |-> t] : t \in GridThresholds}

WellFormed(st, m) == st \in RangeTypes => m.ideal_low <= m.ideal_high

Idle ==
    /\ sensors_def = <<>> /\ sensor_map = <<>> /\ readings = <<>> /\ df = <<>>
    /\ viols = <<>> /\ score = 0 /\ cat = "" /\ sensor_analysis = <<>>
    /\ critical_alerts = <<>>

InitSeverity ==
    /\ pc = "call"
    /\ stype \in SensorTypes
    /\ meta \in {m \in ThresholdSets(stype) : WellFormed(stype, m)}
    /\ value \in GridValues
    /\ sev = ""
    /\ Idle

Classify ==
    /\ pc = "call"
    /\ sev' = severity_for(meta, value, stype)
    /\ pc' = "ret"
    /\ UNCHANGED <<sensors_def, sensor_map, readings, df, viols, score, cat,
                   sensor_analysis, critical_alerts, meta, value, stype>>

NextSeverity == Classify

SpecSeverity == InitSeverity /\ [][NextSeverity]_vars

(***************************************************************************)
(* detect_violations(df, meta)                                             *)
(***************************************************************************)
\* Python's string order of the sensor codes: df.groupby("sensor_code")
\* yields the groups in sorted key order.
CodeOrder == <<"B10", "G12", "H200", "S50", "T100", "TX5">>

\* The rows of one group, in frame order.
Group(frame, sc) == SelectSeq(frame, LAMBDA r : r.sensor_code = sc)

\* The violation appended for one row, if any.
RowViolation(sc, m, st, row) ==
    LET s == severity_for(m, row.value, st)
    IN IF row.value = None
       THEN << [sensor_code |-> sc, type |-> "missing", severity |-> "warning",
                message |-> <<"Missing reading">>, ts |-> row.ts] >>
       ELSE IF s # "normal"
       THEN << [sensor_code |-> sc, type |-> "threshold", severity |-> s,
                message |-> <<sc, " breach: ", row.value>>, ts |-> row.ts] >>
       ELSE <<>>

\* The inner loop with the test sev != "normal" left out.
RECURSIVE GroupViolations_EmitNormal(_, _, _, _)
GroupViolations_EmitNormal(sc, m, st, rows) ==
    IF rows = <<>> THEN <<>>
    ELSE (IF Head(rows).value = None THEN RowViolation(sc, m, st, Head(rows))
          ELSE << [sensor_code |-> sc, type |-> "threshold",
                   severity |-> severity_for(m, Head(rows).value, st),
                   message |-> <<sc, " breach: ", Head(rows).value>>,
                   ts |-> Head(rows).ts] >>)
         \o GroupViolations_EmitNormal(sc, m, st, Tail(rows))

\* The inner loop with out.insert(0, ...) in place of out.append(...).
RECURSIVE GroupViolations_Prepend(_, _, _, _)
GroupViolations_Prepend(sc, m, st, rows) ==
    IF rows = <<>> THEN <<>>
    ELSE GroupViolations_Prepend(sc, m, st, Tail(rows))
         \o RowViolation(sc, m, st, Head(rows))

\* The inner loop over zip(grp["ts"], grp["value"]).
RECURSIVE GroupViolations(_, _, _, _)
GroupViolations(sc, m, st, rows) ==
    IF rows = <<>> THEN <<>>
    ELSE RowViolation(sc, m, st, Head(rows)) \o GroupViolations(sc, m, st, Tail(rows))

\* The outer loop over the groups, from the i-th key on.
RECURSIVE ViolationsFrom(_, _, _)
ViolationsFrom(i, frame, smap) ==
    IF i > Len(CodeOrder) THEN <<>>
    ELSE LET sc == CodeOrder[i]
             rows == Group(frame, sc)
         IN (IF rows = <<>> THEN <<>>
             ELSE GroupViolations(sc, smap[sc].metadata, smap[sc].sensor_type, rows))
            \o ViolationsFrom(i + 1, frame, smap)

detect_violations(frame, smap) == ViolationsFrom(1, frame, smap)

(***************************************************************************)
(* compute_risk(violations)                                                *)
(***************************************************************************)
WarningWeight == 1000     \* 0.1
CriticalWeight == 3500    \* 0.35
ScoreCap == 10000         \* min(1, ...)
HighCut == 5000           \* score > 0.5
MediumCut == 2000         \* score > 0.2

Weight(v) ==
    IF v.severity = "warning" THEN WarningWeight
    ELSE IF v.severity = "critical" THEN CriticalWeight
    ELSE 0

\* sum(... for v in violations)
RECURSIVE SumWeights(_)
SumWeights(vs) == IF vs = <<>> THEN 0 ELSE Weight(Head(vs)) + SumWeights(Tail(vs))

\* round(x, 3) of a number counted in ten-thousandths: the nearest thousandth,
\* a tie going to the even one.
Round3(x) ==
    LET q == x \div 10
        r == x % 10
    IN IF r > 5 \/ (r = 5 /\ q % 2 = 1) THEN (q + 1) * 10 ELSE q * 10

Min(a, b) == IF b < a THEN b ELSE a

\* compute_risk without the min(1, ...).
compute_risk_NoCap(vs) ==
    LET s == SumWeights(vs)
    IN << Round3(s),
          IF s > HighCut THEN "High" ELSE IF s > MediumCut THEN "Medium" ELSE "Low" >>

\* compute_risk with the cut-points tested >= instead of >.
compute_risk_GeCut(vs) ==
    LET s == SumWeights(vs)
    IN << Min(ScoreCap, Round3(s)),
          IF s >= HighCut THEN "High" ELSE IF s >= MediumCut THEN "Medium" ELSE "Low" >>

\* compute_risk with the critical severity misspelt, so that it weighs 0.
compute_risk_CaseTypo(vs) ==
    LET s == WarningWeight * Len(SelectSeq(vs, LAMBDA v : v.severity = "warning"))
    IN << Min(ScoreCap, Round3(s)),
          IF s > HighCut THEN "High" ELSE IF s > MediumCut THEN "Medium" ELSE "Low" >>

\* The pair (score, category).
compute_risk(vs) ==
    LET s == SumWeights(vs)
    IN << Min(ScoreCap, Round3(s)),
          IF s > HighCut THEN "High" ELSE IF s > MediumCut THEN "Medium" ELSE "Low" >>

(***************************************************************************)
(* sensor_risk(value_list, meta, stype)                                    *)
(***************************************************************************)
\* The loop from the current value on, with the risk found so far.
RECURSIVE RiskLoop(_, _, _, _)
RiskLoop(vals, m, st, risk) ==
    IF vals = <<>> THEN risk
    ELSE LET s == severity_for(m, Head(vals), st)
         IN IF s = "critical" THEN "High"
            ELSE RiskLoop(Tail(vals), m, st, IF s = "warning" THEN "Medium" ELSE risk)

\* The loop with risk="High" assigned in place of the early return, so that a
\* later warning overwrites it.
RECURSIVE RiskLoop_LastWins(_, _, _, _)
RiskLoop_LastWins(vals, m, st, risk) ==
    IF vals = <<>> THEN risk
    ELSE LET s == severity_for(m, Head(vals), st)
         IN RiskLoop_LastWins(Tail(vals), m, st,
                IF s = "critical" THEN "High"
                ELSE IF s = "warning" THEN "Medium" ELSE risk)

sensor_risk_LastWins(value_list, m, st) == RiskLoop_LastWins(value_list, m, st, "Low")

sensor_risk(value_list, m, st) == RiskLoop(value_list, m, st, "Low")

(***************************************************************************)
(* main: the report of one shipment                                        *)
(***************************************************************************)
\* pd.DataFrame(cur.fetchall(), columns=[...]): a value column holding at
\* least one float becomes a float64 column, in which a database NULL is
\* not-a-number; a column of NULLs alone stays an object column of None.
DataFrame(rows) ==
    IF \E i \in 1..Len(rows) : IsNum(rows[i].value)
    THEN [i \in 1..Len(rows) |->
             IF rows[i].value = None THEN [rows[i] EXCEPT !.value = NaN] ELSE rows[i]]
    ELSE rows

\* Whether the value column is an object column (None throughout).
ObjectColumn(frame) == \A i \in 1..Len(frame) : frame[i].value = None

\* df["sensor_code"].unique(): the codes in order of first appearance.
RECURSIVE Unique(_, _)
Unique(frame, seen) ==
    IF frame = <<>> THEN <<>>
    ELSE IF Head(frame).sensor_code \in seen THEN Unique(Tail(frame), seen)
    ELSE <<Head(frame).sensor_code>>
         \o Unique(Tail(frame), seen \cup {Head(frame).sensor_code})

\* df[df["sensor_code"]==sc]["value"].tolist()
Values(frame, sc) ==
    LET rows == Group(frame, sc) IN [i \in 1..Len(rows) |-> rows[i].value]

\* One entry of sensor_analysis (the average is left out).
Analysis(frame, smap, vs, sc) ==
    [sensor_code |-> sc,
     sensor_name |-> smap[sc].sensor_name,
     unit |-> smap[sc].unit,
     violations |-> Len(SelectSeq(vs, LAMBDA v : v.sensor_code = sc)),
     risk |-> sensor_risk(Values(frame, sc), smap[sc].metadata, smap[sc].sensor_type)]

SensorAnalysis(frame, smap, vs) ==
    LET codes == Unique(frame, {})
    IN [i \in 1..Len(codes) |-> Analysis(frame, smap, vs, codes[i])]

\* The names appended to critical_alerts, in order.
CriticalAlerts(analysis) ==
    LET high == SelectSeq(analysis, LAMBDA a : a.risk = "High")
    IN [i \in 1..Len(high) |-> high[i].sensor_name]

\* The definitions a run may be started with: the list as shipped, and the
\* list with one entry edited into an invalid configuration (a negative
\* warning_margin, a sensor type outside the six known ones).
SensorDefinitions ==
    { SENSORS_DEF,
      [SENSORS_DEF EXCEPT ![1].metadata.warning_margin = 0 - 10],
      [SENSORS_DEF EXCEPT ![5].sensor_type = "altitude"] }

\* sensor_map[s["sensor_code"]] = {"id": sid, **s} for every s of the list.
SensorMap(defs) ==
    [sc \in {defs[i].sensor_code : i \in 1..Len(defs)} |->
        LET i == CHOOSE j \in 1..Len(defs) : defs[j].sensor_code = sc
        IN [id |-> i, sensor_code |-> sc, sensor_name |-> defs[i].sensor_name,
            sensor_type |-> defs[i].sensor_type, unit |-> defs[i].unit,
            metadata |-> defs[i].metadata]]

\* generate_readings_for_shipment: values the generator can draw for a sensor
\* type (one per severity it can reach); a type it does not know gets no value.
GenValues(st) ==
    IF st = "core_temperature" THEN {Num(50), Num(85), Num(95)}
    ELSE IF st = "surface_temperature" THEN {Num(50), Num(110)}
    ELSE IF st = "humidity" THEN {Num(450), Num(660)}
    ELSE IF st = "shock" THEN {Num(2), Num(30)}
    ELSE IF st = "gps" THEN {Num(15)}
    ELSE IF st = "battery_voltage" THEN {Num(36), Num(31)}
    ELSE {}

\* ts = base + 5*i minutes for the i-th reading of a sensor (base taken as 0).
NextTs(rows, sc) == 5 * Len(Group(rows, sc))

Init ==
    /\ pc = "start"
    /\ sensors_def \in SensorDefinitions
    /\ sensor_map = <<>>
    /\ readings = <<>> /\ df = <<>> /\ viols = <<>>
    /\ score = 0 /\ cat = ""
    /\ sensor_analysis = <<>> /\ critical_alerts = <<>>
    /\ meta = <<>> /\ value = None /\ stype = "" /\ sev = ""

\* main: the sensors are inserted and sensor_map is built.
InsertSensors ==
    /\ pc = "start"
    /\ sensor_map' = SensorMap(sensors_def)
    /\ pc' = "readings"
    /\ UNCHANGED <<sensors_def, readings, df, viols, score, cat, sensor_analysis,
                   critical_alerts, meta, value, stype, sev>>

\* main: one generated reading is inserted; the value is missing or drawn.
InsertReading ==
    /\ pc = "readings"
    /\ Len(readings) < MaxReadings
    /\ \E i \in 1..Len(sensors_def) :
         \E v \in GenValues(sensors_def[i].sensor_type) \cup {None} :
            readings' = Append(readings,
                [sensor_code |-> sensors_def[i].sensor_code, value |-> v,
                 ts |-> NextTs(readings, sensors_def[i].sensor_code)])
    /\ UNCHANGED <<pc, sensors_def, sensor_map, df, viols, score, cat,
                   sensor_analysis, critical_alerts, meta, value, stype, sev>>

\* main: the report of the shipment, from the SELECT to the JSON entry.
Report ==
    /\ pc = "readings" /\ readings # <<>>
    /\ ~ObjectColumn(DataFrame(readings))
    /\ df' = DataFrame(readings)
    /\ viols' = detect_violations(df', sensor_map)
    /\ score' = compute_risk(viols')[1]
    /\ cat' = compute_risk(viols')[2]
    /\ sensor_analysis' = SensorAnalysis(df', sensor_map, viols')
    /\ critical_alerts' = CriticalAlerts(sensor_analysis')
    /\ pc' = "done"
    /\ UNCHANGED <<sensors_def, sensor_map, readings, meta, value, stype, sev>>

\* main: every value of the shipment is None, and the aggregation of the
\* object column for the sensor statistics raises.
ReportStatsFail ==
    /\ pc = "readings" /\ readings # <<>>
    /\ ObjectColumn(DataFrame(readings))
    /\ df' = DataFrame(readings)
    /\ pc' = "failed"
    /\ UNCHANGED <<sensors_def, sensor_map, readings, viols, score, cat,
                   sensor_analysis, critical_alerts, meta, value, stype, sev>>

\* main: every value of the shipment is None, the statistics pass, the risk
\* score is stored, and np.nanmean of the first sensor's values raises.
ReportMeanFail ==
    /\ pc = "readings" /\ readings # <<>>
    /\ ObjectColumn(DataFrame(readings))
    /\ df' = DataFrame(readings)
    /\ viols' = detect_violations(df', sensor_map)
    /\ score' = compute_risk(viols')[1]
    /\ cat' = compute_risk(viols')[2]
    /\ pc' = "failed"
    /\ UNCHANGED <<sensors_def, sensor_map, readings, sensor_analysis,
                   critical_alerts, meta, value, stype, sev>>

Next == InsertSensors \/ InsertReading \/ Report \/ ReportStatsFail \/ ReportMeanFail

Spec == Init /\ [][Next]_vars

(***************************************************************************)
(* The detector and the evaluators on their own: a frame is drawn row by   *)
(* row (any mix of floats, not-a-number and None), then evaluated against  *)
(* the shipped catalog.                                                    *)
(***************************************************************************)
InitDetect ==
    /\ pc = "frame"
    /\ sensors_def = SENSORS_DEF
    /\ sensor_map = SensorMap(SENSORS_DEF)
    /\ readings = <<>> /\ df = <<>> /\ viols = <<>>
    /\ score = 0 /\ cat = ""
    /\ sensor_analysis = <<>> /\ critical_alerts = <<>>
    /\ meta = <<>> /\ value = None /\ stype = "" /\ sev = ""

AddRow ==
    /\ pc = "frame"
    /\ Len(df) < MaxReadings
    /\ \E i \in 1..Len(sensors_def) :
         \E v \in GenValues(sensors_def[i].sensor_type) \cup {None, NaN} :
            df' = Append(df,
                [sensor_code |-> sensors_def[i].sensor_code, value |-> v,
                 ts |-> NextTs(df, sensors_def[i].sensor_code)])
    /\ UNCHANGED <<pc, sensors_def, sensor_map, readings, viols, score, cat,
                   sensor_analysis, critical_alerts, meta, value, stype, sev>>

Evaluate ==
    /\ pc = "frame"
    /\ viols' = detect_violations(df, sensor_map)
    /\ score' = compute_risk(viols')[1]
    /\ cat' = compute_risk(viols')[2]
    /\ sensor_analysis' = SensorAnalysis(df, sensor_map, viols')
    /\ critical_alerts' = CriticalAlerts(sensor_analysis')
    /\ pc' = "evaluated"
    /\ UNCHANGED <<sensors_def, sensor_map, readings, df, meta, value, stype, sev>>

NextDetect == AddRow \/ Evaluate

SpecDetect == InitDetect /\ [][NextDetect]_vars

(***************************************************************************)
(* compute_risk on its own: a violation list is drawn, then scored.        *)
(***************************************************************************)
Severities == {"warning", "critical", "info"}

InitRisk ==
    /\ pc = "list"
    /\ sensors_def = <<>> /\ sensor_map = <<>>
    /\ readings = <<>> /\ df = <<>> /\ viols = <<>>
    /\ score = 0 /\ cat = ""
    /\ sensor_analysis = <<>> /\ critical_alerts = <<>>
    /\ meta = <<>> /\ value = None /\ stype = "" /\ sev = ""

AddViolation ==
    /\ pc = "list"
    /\ Len(viols) < MaxViolations
    /\ \E s \in Severities :
         viols' = Append(viols,
             [sensor_code |-> "T100", type |-> "threshold", severity |-> s,
              message |-> <<"T100", " breach: ", Num(95)>>, ts |-> 5 * Len(viols)])
    /\ UNCHANGED <<pc, sensors_def, sensor_map, readings, df, score, cat,
                   sensor_analysis, critical_alerts, meta, value, stype, sev>>

Score ==
    /\ pc = "list"
    /\ score' = compute_risk(viols)[1]
    /\ cat' = compute_risk(viols)[2]
    /\ pc' = "scored"
    /\ UNCHANGED <<sensors_def, sensor_map, readings, df, viols,
                   sensor_analysis, critical_alerts, meta, value, stype, sev>>

NextRisk == AddViolation \/ Score

SpecRisk == InitRisk /\ [][NextRisk]_vars

(***************************************************************************)
(* Properties                                                              *)
(***************************************************************************)
\* The readings of the frame that detect_violations treats as non-normal.
Classified(frame, smap, i) ==
    severity_for(smap[frame[i].sensor_code].metadata, frame[i].value,
                 smap[frame[i].sensor_code].sensor_type)

\* The violations of the list derived from the reading (sc, ts).
ViolationsOf(vs, sc, ts) ==
    {j \in 1..Len(vs) : vs[j].sensor_code = sc /\ vs[j].ts = ts}

\* C1: in a finished report, every reading of the shipment whose value is
\* absent in the reading table has exactly one violation, of type missing and
\* severity warning.
C1_MissingAlwaysReported ==
    pc = "done" =>
        \A i \in 1..Len(readings) :
            readings[i].value = None =>
                /\ Cardinality(ViolationsOf(viols, readings[i].sensor_code,
                                            readings[i].ts)) = 1
                /\ \A j \in ViolationsOf(viols, readings[i].sensor_code, readings[i].ts) :
                      viols[j].type = "missing" /\ viols[j].severity = "warning"

\* The weighted sum of a violation list, counted per severity.
WeightedSum(vs) ==
    WarningWeight * Cardinality({j \in 1..Len(vs) : vs[j].severity = "warning"})
    + CriticalWeight * Cardinality({j \in 1..Len(vs) : vs[j].severity = "critical"})

\* C2: the score compute_risk returns is min(1, weighted sum) with 0.1 per
\* warning and 0.35 per critical, lies in [0,1], and a weighted sum above 1.0
\* gives score 1.0 and category High.
C2_ScoreIsCappedSum ==
    pc = "scored" =>
        /\ score = (IF WeightedSum(viols) > ScoreCap THEN ScoreCap ELSE WeightedSum(viols))
        /\ 0 <= score /\ score <= ScoreCap
        /\ WeightedSum(viols) > ScoreCap => score = ScoreCap /\ cat = "High"

C2_Witness ==
    pc = "scored" /\ WeightedSum(viols) > ScoreCap /\ score = ScoreCap /\ cat = "High"

\* C3: the category is High exactly when the returned score is above 0.5,
\* Medium exactly when it is above 0.2 and at most 0.5, Low otherwise; five
\* warnings are Medium, two warnings are Low, the empty list is 0 and Low.
C3_CategoryCuts ==
    pc = "scored" =>
        /\ cat = "High" <=> score > HighCut
        /\ cat = "Medium" <=> (score > MediumCut /\ score <= HighCut)
        /\ cat = "Low" <=> score <= MediumCut
        /\ (Len(viols) = 5 /\ \A j \in 1..5 : viols[j].severity = "warning")
              => score = HighCut /\ cat = "Medium"
        /\ (Len(viols) = 2 /\ \A j \in 1..2 : viols[j].severity = "warning")
              => score = MediumCut /\ cat = "Low"
        /\ viols = <<>> => score = 0 /\ cat = "Low"

C3_Witness ==
    /\ pc = "scored" /\ Len(viols) = 5
    /\ \A j \in 1..5 : viols[j].severity = "warning"
    /\ cat = "Medium"

\* C4: detect_violations emits exactly one violation for every reading that
\* is absent or classifies as warning or critical, none for a normal reading,
\* and each threshold violation carries the sensor code of its reading and the
\* severity severity_for returns for its value.
C4_OneViolationPerNonNormal ==
    pc = "evaluated" =>
        /\ Len(viols) = Cardinality({i \in 1..Len(df) :
               df[i].value = None \/ Classified(df, sensor_map, i) \in {"warning", "critical"}})
        /\ \A i \in 1..Len(df) :
              Cardinality(ViolationsOf(viols, df[i].sensor_code, df[i].ts)) =
                  (IF df[i].value = None \/ Classified(df, sensor_map, i) # "normal"
                   THEN 1 ELSE 0)
        /\ \A j \in 1..Len(viols) :
              viols[j].type = "threshold" =>
                 \E i \in 1..Len(df) :
                    /\ df[i].sensor_code = viols[j].sensor_code
                    /\ df[i].ts = viols[j].ts
                    /\ df[i].value # None
                    /\ viols[j].severity = Classified(df, sensor_map, i)

C4_Witness ==
    /\ pc = "evaluated" /\ Len(df) = 3 /\ Len(viols) = 2
    /\ \E i \in 1..3 : IsNum(df[i].value) /\ Classified(df, sensor_map, i) = "normal"
    /\ \E j \in 1..2 : viols[j].type = "missing"
    /\ \E j \in 1..2 : viols[j].type = "threshold"

\* The severity the classification rules give a present finite value: a range
\* type is normal inside [ideal_low, ideal_high] and otherwise critical when
\* the distance to the violated bound exceeds warning_margin, else warning;
\* shock is critical from spike_threshold on; battery_voltage is warning
\* below min_voltage; gps is normal.
Classify_Rule(m, n, st) ==
    IF st \in RangeTypes
    THEN IF m.ideal_low <= n /\ n <= m.ideal_high THEN "normal"
         ELSE LET distance == IF n > m.ideal_high THEN n - m.ideal_high
                              ELSE m.ideal_low - n
              IN IF distance > m.warning_margin THEN "critical" ELSE "warning"
    ELSE IF st = "shock"
    THEN IF n >= m.spike_threshold THEN "critical" ELSE "normal"
    ELSE IF st = "battery_voltage"
    THEN IF n < m.min_voltage THEN "warning" ELSE "normal"
    ELSE "normal"

\* The threshold set carries every parameter of its type.
Complete(st, m) ==
    /\ st \in RangeTypes => "warning_margin" \in DOMAIN m
    /\ st = "shock" => "spike_threshold" \in DOMAIN m
    /\ st = "battery_voltage" => "min_voltage" \in DOMAIN m

C6_SensorRisk ==
    pc = "evaluated" =>
        /\ \A k \in 1..Len(sensor_analysis) :
              LET sc == sensor_analysis[k].sensor_code
                  crit == \E i \in 1..Len(df) :
                             /\ df[i].sensor_code = sc /\ df[i].value # None
                             /\ Classified(df, sensor_map, i) = "critical"
                  warn == \E i \in 1..Len(df) :
                             /\ df[i].sensor_code = sc /\ df[i].value # None
                             /\ Classified(df, sensor_map, i) = "warning"
              IN sensor_analysis[k].risk =
                    (IF crit THEN "High" ELSE IF warn THEN "Medium" ELSE "Low")
        /\ \A sc \in DOMAIN sensor_map :
              sensor_risk(<<>>, sensor_map[sc].metadata, sensor_map[sc].sensor_type) = "Low"

\* A critical value standing between a warning and a later warning.
C6_Witness ==
    /\ pc = "evaluated" /\ Len(df) = 3
    /\ df[1].sensor_code = df[2].sensor_code /\ df[2].sensor_code = df[3].sensor_code
    /\ Classified(df, sensor_map, 1) = "warning"
    /\ Classified(df, sensor_map, 2) = "critical"
    /\ Classified(df, sensor_map, 3) = "warning"
    /\ sensor_analysis[1].risk = "High"

\* The place in the frame of the reading (sc, ts).
RowOf(frame, sc, ts) ==
    CHOOSE i \in 1..Len(frame) : frame[i].sensor_code = sc /\ frame[i].ts = ts

\* C7: two violations of one sensor stand in the output in the order in which
\* their readings stand in the input.
C7_PerSensorOrder ==
    pc = "evaluated" =>
        \A j1, j2 \in 1..Len(viols) :
            (j1 < j2 /\ viols[j1].sensor_code = viols[j2].sensor_code) =>
                RowOf(df, viols[j1].sensor_code, viols[j1].ts)
                    < RowOf(df, viols[j2].sensor_code, viols[j2].ts)

\* Two violations of one sensor whose readings have another sensor's
\* violating reading between them.
C7_Witness ==
    /\ pc = "evaluated" /\ Len(df) = 3 /\ Len(viols) = 3
    /\ df[1].sensor_code = df[3].sensor_code
    /\ df[2].sensor_code # df[1].sensor_code
    /\ viols[1].sensor_code = df[2].sensor_code
    /\ viols[2].ts < viols[3].ts

\* C8: a not-a-number value of a range-type or shock sensor is classified
\* critical.
C8_NonFiniteIsCritical ==
    (pc = "ret" /\ value = NaN /\ stype \in RangeTypes \cup {"shock"}) =>
        sev = "critical"

\* A valid configuration: one of the six sensor types, and for a range type a
\* warning_margin that is not negative.
ValidConfig(s) ==
    /\ s.sensor_type \in SensorTypes
    /\ s.sensor_type \in RangeTypes => Get(s.metadata, "warning_margin", 10) >= 0

\* C9: no sensor is analysed (hence classified by severity_for) under an
\* invalid configuration: a run started with one is rejected when the
\* catalog is built.
C9_InvalidConfigRejected ==
    \A k \in 1..Len(sensor_analysis) :
        ValidConfig(sensor_map[sensor_analysis[k].sensor_code])

\* C10: in a finished report every critical alert names a sensor with at
\* least one critical threshold violation, and with a critical alert the score
\* is at least 0.35 and the category is not Low.
C10_AlertsAgreeWithScore ==
    pc = "done" =>
        /\ \A k \in 1..Len(critical_alerts) :
              \E sc \in DOMAIN sensor_map :
                 /\ sensor_map[sc].sensor_name = critical_alerts[k]
                 /\ \E j \in 1..Len(viols) :
                       /\ viols[j].sensor_code = sc
                       /\ viols[j].type = "threshold"
                       /\ viols[j].severity = "critical"
        /\ critical_alerts # <<>> => score >= CriticalWeight /\ cat # "Low"

\* A critical alert in a report whose category is only Medium.
C10_Witness ==
    pc = "done" /\ critical_alerts # <<>> /\ cat = "Medium" /\ score = CriticalWeight

====
